---- MODULE Spec2Model ----
(***************************************************************************)
(* Model of the weekly meeting reminder (src/main.py).                     *)
(*                                                                         *)
(* Text values (names, emails, Slack ids) are sequences of one-character   *)
(* strings, so that str.strip() and str.lower() are computed and not       *)
(* assumed.  Python's None is the value None below.                        *)
(*                                                                         *)
(* Three specifications share the variables:                               *)
(*   Spec      the whole script: environment checks, Slack App             *)
(*             construction, roster load, Calendly requests, Slack sends;  *)
(*   SpecLoad  load_students applied to roster blobs;                      *)
(*   SpecWeek  the week window of get_scheduled_students applied to        *)
(*             instants.                                                   *)
(***************************************************************************)
EXTENDS Integers, Sequences, FiniteSets, TLC

VARIABLES
    pc,                         \* position of the script
    env,                        \* os.environ: the four secrets
    STUDENTS_DATA,              \* os.environ.get("STUDENTS_DATA", ""), as parsed lines
    loaded,                     \* what load_students returned and logged
    net,                        \* every network call issued so far, in order
    events,                     \* events of the scheduled_events response
    ev,                         \* index of the next event of the loop at line 121
    api_calls,                  \* get_scheduled_students: api_calls
    scheduled_emails,           \* get_scheduled_students / notify_missing_students
    st,                         \* index of the next student of the loop at line 156
    notifications_sent,         \* notify_missing_students: notifications_sent
    students_already_scheduled, \* notify_missing_students: students_already_scheduled
    report,                     \* the counts of the final log line (line 180)
    exit_code,                  \* process exit code, -1 while running
    now,                        \* datetime.now(UTC) read by get_scheduled_students
    window                      \* (min_time, max_time) computed from now

vars == <<pc, env, STUDENTS_DATA, loaded, net, events, ev, api_calls,
          scheduled_emails, st, notifications_sent,
          students_already_scheduled, report, exit_code, now, window>>

-----------------------------------------------------------------------------
(* Bounds of the model                                                     *)

MaxRows == 2        \* data lines of a roster blob (SpecLoad)
MaxStudents == 2    \* data lines of a roster blob (Spec)
MaxEvents == 2      \* events in the scheduled_events response
MaxDays == 14       \* consecutive days the instant "now" ranges over

-----------------------------------------------------------------------------
(* Python values and str methods                                           *)

None == <<"None">>

\* Python truthiness of an optional str: None and "" are falsy
Falsy(s) == s = None \/ s = <<>>

LowerChar(c) ==
    CASE c = "A" -> "a"
      [] c = "B" -> "b"
      [] c = "U" -> "u"
      [] OTHER -> c

\* str.lower()
lower(s) == [i \in 1..Len(s) |-> LowerChar(s[i])]

IsSpace(c) == c = " "

RECURSIVE lstrip(_)
lstrip(s) ==
    IF s # <<>> /\ IsSpace(Head(s)) THEN lstrip(Tail(s)) ELSE s

RECURSIVE rstrip(_)
rstrip(s) ==
    IF s # <<>> /\ IsSpace(s[Len(s)]) THEN rstrip(SubSeq(s, 1, Len(s) - 1)) ELSE s

\* str.strip()
strip(s) == rstrip(lstrip(s))

-----------------------------------------------------------------------------
(* load_students                                                           *)

\* csv.DictReader: one row as a dict over the header's field names; a row
\* shorter than the header maps the missing fields to None (restval); the
\* fields of a longer row go under the key None, which the script never reads
DictRow(fieldnames, row) ==
    [k \in {fieldnames[j] : j \in 1..Len(fieldnames)} |->
        LET j == CHOOSE j \in 1..Len(fieldnames) : fieldnames[j] = k
        IN  IF j <= Len(row) THEN row[j] ELSE None]

\* line 76: row["email"].strip().lower()
NormEmailNoLower(s) == strip(s)
NormEmail(s) == lower(strip(s))

\* line 77: row["slack_id"].strip() if "slack_id" in row else None
SlackIdOf(row) ==
    IF "slack_id" \in DOMAIN row THEN strip(row["slack_id"]) ELSE None

\* lines 75-78 raise KeyError when the header lacks name or email, and
\* AttributeError when email or slack_id is None (a short row)
RowRaises(row) ==
    \/ "name" \notin DOMAIN row
    \/ "email" \notin DOMAIN row
    \/ row["email"] = None
    \/ ("slack_id" \in DOMAIN row /\ row["slack_id"] = None)

\* lines 75-78: the value stored for a row, with its key
StudentOf(row) ==
    [name |-> row["name"], email |-> NormEmail(row["email"]), slack_id |-> SlackIdOf(row)]

\* students[name] = info on an insertion-ordered dict: a new key is appended,
\* an existing key keeps its position and takes the new value
DictSet(students, info) ==
    IF \E i \in 1..Len(students) : students[i].name = info.name
    THEN [i \in 1..Len(students) |->
            IF students[i].name = info.name THEN info ELSE students[i]]
    ELSE Append(students, info)

\* lines 72-82: the loop over the reader inside the try; blank lines are not
\* rows; the first raising row ends the loop (the except is outside it)
RECURSIVE ReadRows(_, _, _, _)
ReadRows(fieldnames, rows, students, student_count) ==
    IF rows = <<>>
    THEN [students |-> students, student_count |-> student_count, raised |-> FALSE]
    ELSE IF Len(Head(rows)) = 0
    THEN ReadRows(fieldnames, Tail(rows), students, student_count)
    ELSE LET row == DictRow(fieldnames, Head(rows))
         IN  IF RowRaises(row)
             THEN [students |-> students, student_count |-> student_count + 1,
                   raised |-> TRUE]
             ELSE ReadRows(fieldnames, Tail(rows),
                           DictSet(students, StudentOf(row)), student_count + 1)

\* the empty string: no header line, no rows
EmptyBlob == [fieldnames |-> <<>>, rows |-> <<>>]

\* lines 56-84: the returned dict as a sequence in insertion order, the
\* student_count local and whether the except branch logged an error
LoadStudents(csv_data) ==
    IF csv_data = EmptyBlob
    THEN [students |-> <<>>, student_count |-> 0, raised |-> FALSE]
    ELSE ReadRows(csv_data.fieldnames, csv_data.rows, <<>>, 0)

NotLoaded == [students |-> <<>>, student_count |-> 0, raised |-> FALSE]

\* line 87: the module-level roster
STUDENTS == loaded.students

-----------------------------------------------------------------------------
(* The week window of get_scheduled_students                               *)

\* date.weekday(): Monday is 0; ordinal 1 (0001-01-01) is a Monday
isoweekday(ordinal) == ((ordinal + 6) % 7) + 1
weekday(ordinal) == (ordinal + 6) % 7

\* datetime - timedelta(days=n) and datetime + timedelta(days=n)
PlusDays(dt, n) == [dt EXCEPT !.ordinal = dt.ordinal + n]

\* lines 95-102
WeekWindow(today) ==
    LET start_of_week == PlusDays(today, 0 - weekday(today.ordinal))
        end_of_week == PlusDays(start_of_week, 4)
    IN  [min_time |-> [start_of_week EXCEPT !.hour = 0, !.minute = 0,
                                            !.second = 0, !.microsecond = 0],
         max_time |-> [end_of_week EXCEPT !.hour = 23, !.minute = 59,
                                          !.second = 59, !.microsecond = 999999]]

\* datetime - datetime as Python's normalised timedelta
\* (days, 0 <= seconds < 86400, 0 <= microseconds < 1000000)
SecondsOfDay(dt) == dt.hour * 3600 + dt.minute * 60 + dt.second

Minus(a, b) ==
    LET us == a.microsecond - b.microsecond
        s == SecondsOfDay(a) - SecondsOfDay(b) + (IF us < 0 THEN -1 ELSE 0)
        d == a.ordinal - b.ordinal + (IF s < 0 THEN -1 ELSE 0)
    IN  [days |-> d,
         seconds |-> IF s < 0 THEN s + 86400 ELSE s,
         microseconds |-> IF us < 0 THEN us + 1000000 ELSE us]

NoTime == [ordinal |-> 0, hour |-> 0, minute |-> 0, second |-> 0, microsecond |-> 0]
NoWindow == [min_time |-> NoTime, max_time |-> NoTime]

-----------------------------------------------------------------------------
(* Inputs                                                                  *)

Unset == "<unset>"
Secrets == {"CALENDLY_TOKEN", "CALENDLY_USER_URI", "SLACK_BOT_TOKEN", "SLACK_SIGNING_SECRET"}
SecretValues == {Unset, "", "value"}

Names == {<<"X">>, <<"Y">>}
RawEmails == {<<"a">>, <<"A", " ">>, <<" ", "b">>}
RawSlackIds == {<<"U">>, <<>>, <<" ">>}

Headers == {<<"name", "email", "slack_id">>, <<"name", "email">>, <<"name", "slack_id">>}

\* data lines of 0 to 3 fields: a blank line, short rows, full rows
Lines ==
    {<<>>}
    \cup {<<n>> : n \in Names}
    \cup {<<n, e>> : n \in Names, e \in RawEmails}
    \cup {<<n, e, s>> : n \in Names, e \in RawEmails, s \in RawSlackIds}

SeqsUpTo(S, n) == UNION {[1..k -> S] : k \in 0..n}

Blobs ==
    {EmptyBlob} \cup
    {[fieldnames |-> h, rows |-> r] : h \in Headers, r \in SeqsUpTo(Lines, MaxRows)}

\* rosters of the whole-script specification: full rows and one short row,
\* under a header with or without the slack_id column
RunEmails == {<<"A", " ">>, <<"b">>}
RunSlackIds == {<<"U">>, <<>>}
RunLines ==
    {<<n, e, s>> : n \in Names, e \in RunEmails, s \in RunSlackIds}
    \cup {<<<<"X">>, <<"b">>>>}    \* a short row
RunBlobs ==
    {EmptyBlob} \cup
    {[fieldnames |-> h, rows |-> r] :
        h \in {<<"name", "email", "slack_id">>, <<"name", "email">>},
        r \in SeqsUpTo(RunLines, MaxStudents)}

\* an event of the scheduled_events collection: with or without its "uri"
Events == {[uri |-> "event"], [uri |-> "missing"]}
InviteeEmails == {<<"A">>, <<"b">>}

\* outcome of a requests.get: status 200 with the expected JSON, another
\* status, an exception raised by the transport, status 200 with a body
\* lacking the expected fields
GetOutcomes == {"ok", "non200", "raise", "malformed"}
\* outcome of chat_postMessage: response["ok"] true, false, or an exception
PostOutcomes == {"ok", "not_ok", "raise"}

\* instants from 2026-10-26 (ordinal 739915, a Monday) on
Instants ==
    {[ordinal |-> 739915 + d, hour |-> h, minute |-> m, second |-> sec, microsecond |-> u] :
        d \in 0..(MaxDays - 1), h \in {0, 12, 23}, m \in {0, 59}, sec \in {0, 59},
        u \in {0, 1, 999999}}
\* 2026-10-31, a Saturday
RunInstant == [ordinal |-> 739920, hour |-> 12, minute |-> 0, second |-> 0, microsecond |-> 1]

-----------------------------------------------------------------------------
(* The script, top to bottom                                               *)

Idle ==
    /\ loaded = NotLoaded
    /\ net = <<>>
    /\ events = <<>>
    /\ ev = 1
    /\ api_calls = 0
    /\ scheduled_emails = {}
    /\ st = 1
    /\ notifications_sent = 0
    /\ students_already_scheduled = 0
    /\ report = [sent |-> 0, already_scheduled |-> 0]
    /\ exit_code = -1
    /\ window = NoWindow

Init ==
    /\ pc = "env"
    /\ env \in [Secrets -> SecretValues]
    /\ STUDENTS_DATA \in RunBlobs
    /\ now = RunInstant
    /\ Idle

\* lines 29-40: `not X` holds for an unset and for an empty variable
Missing(e, k) == e[k] = Unset \/ e[k] = ""

Call(kind, status, data) == [call |-> kind, status |-> status, data |-> data]

\* lines 23-42
CheckEnv ==
    /\ pc = "env"
    /\ IF \E k \in Secrets : Missing(env, k)
       THEN pc' = "exit" /\ exit_code' = 1
       ELSE pc' = "app" /\ exit_code' = exit_code
    /\ UNCHANGED <<env, STUDENTS_DATA, loaded, net, events, ev, api_calls,
                   scheduled_emails, st, notifications_sent,
                   students_already_scheduled, report, now, window>>

\* lines 47-53: App(token=...) verifies the token with an auth.test request
InitApp ==
    /\ pc = "app"
    /\ \E status \in {"ok", "raise"} :
        /\ net' = Append(net, Call("slack_init", status, <<>>))
        /\ IF status = "ok"
           THEN pc' = "load" /\ exit_code' = exit_code
           ELSE pc' = "exit" /\ exit_code' = 1
    /\ UNCHANGED <<env, STUDENTS_DATA, loaded, events, ev, api_calls,
                   scheduled_emails, st, notifications_sent,
                   students_already_scheduled, report, now, window>>

\* lines 87-90
LoadRoster ==
    /\ pc = "load"
    /\ loaded' = LoadStudents(STUDENTS_DATA)
    /\ IF loaded'.students = <<>>
       THEN pc' = "exit" /\ exit_code' = 1
       ELSE pc' = "events" /\ exit_code' = exit_code
    /\ UNCHANGED <<env, STUDENTS_DATA, net, events, ev, api_calls,
                   scheduled_emails, st, notifications_sent,
                   students_already_scheduled, report, now, window>>

-----------------------------------------------------------------------------
(* get_scheduled_students                                                  *)

\* lines 109-117 and 142-144: what follows the events request.  A raised
\* exception skips line 110; every failure returns (set(), api_calls)
OnEventsResponseAbort(status, evs) ==
    /\ api_calls' = IF status = "raise" THEN api_calls ELSE api_calls + 1
    /\ scheduled_emails' = {}
    /\ ev' = 1
    /\ IF status = "ok"
       THEN events' = evs /\ pc' = "invitees" /\ exit_code' = exit_code
       ELSE events' = <<>> /\ pc' = "exit" /\ exit_code' = 1
OnEventsResponse(status, evs) ==
    /\ api_calls' = IF status = "raise" THEN api_calls ELSE api_calls + 1
    /\ scheduled_emails' = {}
    /\ ev' = 1
    /\ exit_code' = exit_code
    /\ IF status = "ok"
       THEN events' = evs /\ pc' = "invitees"
       ELSE events' = <<>> /\ pc' = "notify"

\* lines 150 and 94-117: the window, the events request and its response
FetchEvents ==
    /\ pc = "events"
    /\ window' = WeekWindow(now)
    /\ \E status \in GetOutcomes :
       \E evs \in IF status = "ok" THEN SeqsUpTo(Events, MaxEvents) ELSE {<<>>} :
        /\ net' = Append(net, Call("events", status, evs))
        /\ OnEventsResponse(status, evs)
    /\ UNCHANGED <<env, STUDENTS_DATA, loaded, st, notifications_sent,
                   students_already_scheduled, report, now>>

\* line 137 over one invitees collection
AddInvitees(scheduled, emails) == scheduled \cup {lower(e) : e \in emails}

\* lines 126-137 and 142-144: what follows one invitees request.  A status
\* other than 200 continues with the next event; an exception (raised by the
\* request, or by a body lacking "collection" or "email") leaves the loop and
\* returns (set(), api_calls)
OnInviteesResponse(status, emails) ==
    /\ api_calls' = IF status = "raise" THEN api_calls ELSE api_calls + 1
    /\ CASE status = "ok" ->
              /\ scheduled_emails' = AddInvitees(scheduled_emails, emails)
              /\ ev' = ev + 1
              /\ pc' = pc
         [] status = "non200" ->
              /\ scheduled_emails' = scheduled_emails
              /\ ev' = ev + 1
              /\ pc' = pc
         [] OTHER ->
              /\ scheduled_emails' = {}
              /\ ev' = ev
              /\ pc' = "notify"

\* lines 121-137: one iteration of the loop over the events
FetchInvitees ==
    /\ pc = "invitees"
    /\ ev <= Len(events)
    /\ IF events[ev].uri = "missing"
       THEN \* line 122 raises KeyError before any request
            /\ scheduled_emails' = {}
            /\ pc' = "notify"
            /\ UNCHANGED <<net, ev, api_calls>>
       ELSE \E status \in GetOutcomes :
            \E emails \in IF status = "ok" THEN SUBSET InviteeEmails ELSE {{}} :
                /\ net' = Append(net, Call("invitees", status, emails))
                /\ OnInviteesResponse(status, emails)
    /\ UNCHANGED <<env, STUDENTS_DATA, loaded, events, st, notifications_sent,
                   students_already_scheduled, report, exit_code, now, window>>

\* lines 139-140: the loop is over, return scheduled_emails, api_calls
ReturnScheduled ==
    /\ pc = "invitees"
    /\ ev > Len(events)
    /\ pc' = "notify"
    /\ UNCHANGED <<env, STUDENTS_DATA, loaded, net, events, ev, api_calls,
                   scheduled_emails, st, notifications_sent,
                   students_already_scheduled, report, exit_code, now, window>>

-----------------------------------------------------------------------------
(* notify_missing_students                                                 *)

\* line 159, negated: the else branch of lines 176-178
IsScheduledInverted(info, scheduled) == info.email \notin scheduled
IsScheduled(info, scheduled) == info.email \in scheduled

\* line 160
NoSlackId(info) == Falsy(info.slack_id)

\* lines 167-175: what follows one chat_postMessage; the try is inside the
\* loop, so every outcome goes on with the next student
OnPostResponseBreak(status) ==
    /\ notifications_sent' = IF status = "ok" THEN notifications_sent + 1
                             ELSE notifications_sent
    /\ st' = IF status = "raise" THEN Len(STUDENTS) + 1 ELSE st + 1
OnPostResponse(status) ==
    /\ notifications_sent' = IF status = "ok" THEN notifications_sent + 1
                             ELSE notifications_sent
    /\ st' = st + 1

\* lines 156-178: one iteration of the loop over STUDENTS.items()
NotifyStudent ==
    /\ pc = "notify"
    /\ st <= Len(STUDENTS)
    /\ LET info == STUDENTS[st] IN
        IF IsScheduled(info, scheduled_emails)
        THEN /\ students_already_scheduled' = students_already_scheduled + 1
             /\ st' = st + 1
             /\ UNCHANGED <<net, notifications_sent>>
        ELSE IF NoSlackId(info)
        THEN /\ st' = st + 1
             /\ UNCHANGED <<net, notifications_sent, students_already_scheduled>>
        ELSE \E status \in PostOutcomes :
             /\ net' = Append(net, Call("post", status,
                                        [channel |-> info.slack_id, name |-> info.name]))
             /\ OnPostResponse(status)
             /\ UNCHANGED students_already_scheduled
    /\ UNCHANGED <<pc, env, STUDENTS_DATA, loaded, events, ev, api_calls,
                   scheduled_emails, report, exit_code, now, window>>

\* lines 180 and 187: the final log line with its two counts, then exit 0
Finish ==
    /\ pc = "notify"
    /\ st > Len(STUDENTS)
    /\ report' = [sent |-> notifications_sent,
                  already_scheduled |-> students_already_scheduled]
    /\ pc' = "done"
    /\ exit_code' = 0
    /\ UNCHANGED <<env, STUDENTS_DATA, loaded, net, events, ev, api_calls,
                   scheduled_emails, st, notifications_sent,
                   students_already_scheduled, now, window>>

Next ==
    \/ CheckEnv
    \/ InitApp
    \/ LoadRoster
    \/ FetchEvents
    \/ FetchInvitees
    \/ ReturnScheduled
    \/ NotifyStudent
    \/ Finish

Spec == Init /\ [][Next]_vars

-----------------------------------------------------------------------------
(* load_students on its own                                                *)

InitLoad ==
    /\ pc = "load_students"
    /\ env = [k \in Secrets |-> "value"]
    /\ STUDENTS_DATA \in Blobs
    /\ now = RunInstant
    /\ Idle

\* line 87: STUDENTS = load_students()
CallLoadStudents ==
    /\ pc = "load_students"
    /\ loaded' = LoadStudents(STUDENTS_DATA)
    /\ pc' = "loaded"
    /\ UNCHANGED <<env, STUDENTS_DATA, net, events, ev, api_calls,
                   scheduled_emails, st, notifications_sent,
                   students_already_scheduled, report, exit_code, now, window>>

NextLoad == CallLoadStudents

SpecLoad == InitLoad /\ [][NextLoad]_vars

-----------------------------------------------------------------------------
(* The week window on its own                                              *)

InitWeek ==
    /\ pc = "week"
    /\ env = [k \in Secrets |-> "value"]
    /\ STUDENTS_DATA = EmptyBlob
    /\ now \in Instants
    /\ Idle

\* lines 95-102
ComputeWindow ==
    /\ pc = "week"
    /\ window' = WeekWindow(now)
    /\ pc' = "windowed"
    /\ UNCHANGED <<env, STUDENTS_DATA, loaded, net, events, ev, api_calls,
                   scheduled_emails, st, notifications_sent,
                   students_already_scheduled, report, exit_code, now>>

NextWeek == ComputeWindow

SpecWeek == InitWeek /\ [][NextWeek]_vars

-----------------------------------------------------------------------------
(* Vocabulary of the properties                                            *)

Returned == pc \in {"notify", "done"}     \* get_scheduled_students has returned
Requests == {k \in 1..Len(net) : net[k].call \in {"events", "invitees"}}
InviteeRequests == {k \in 1..Len(net) : net[k].call = "invitees"}
Posts == {k \in 1..Len(net) : net[k].call = "post"}
PostsTo(name) == {k \in Posts : net[k].data.name = name}
EventsStatus(status) == \E k \in 1..Len(net) : net[k].call = "events" /\ net[k].status = status

InScheduled(i) == STUDENTS[i].email \in scheduled_emails
HasIdentity(i) == STUDENTS[i].slack_id # None /\ STUDENTS[i].slack_id # <<>>
Roster == 1..Len(STUDENTS)
Processed == 1..(st - 1)

\* the names of the students among 1..n that are due a message, in roster order
RECURSIVE DueNames(_)
DueNames(n) ==
    IF n = 0 THEN <<>>
    ELSE IF ~InScheduled(n) /\ HasIdentity(n)
         THEN Append(DueNames(n - 1), STUDENTS[n].name)
         ELSE DueNames(n - 1)

\* the names the messages went to, in the order they were sent
RECURSIVE PostedNames(_)
PostedNames(n) ==
    IF n = 0 THEN <<>>
    ELSE IF net[n].call = "post"
         THEN Append(PostedNames(n - 1), net[n].data.name)
         ELSE PostedNames(n - 1)

-----------------------------------------------------------------------------
(* C1 *)

\* C1: a roster entry whose email is in the scheduled-email set is never sent
\* a message, and each such entry the loop has passed was counted once in
\* students_already_scheduled.
C1_ScheduledNeverMessaged ==
    Returned =>
        /\ \A i \in Roster : InScheduled(i) => PostsTo(STUDENTS[i].name) = {}
        /\ students_already_scheduled =
              Cardinality({i \in Processed : InScheduled(i)})

C1_Witness ==
    /\ pc = "done"
    /\ Posts # {}
    /\ students_already_scheduled = 1
    /\ \E i \in Roster : InScheduled(i) /\ HasIdentity(i)

-----------------------------------------------------------------------------
(* C2 *)

SkippedNoIdentity == {i \in Roster : ~InScheduled(i) /\ ~HasIdentity(i)}

\* C2: in a run with an unscheduled entry without a chat identity, no message
\* is sent to that entry and the run's result carries a skipped-no-identity
\* count, beside the sent and already-scheduled counts, that counts it.
C2_SkippedCounted ==
    pc = "done" /\ SkippedNoIdentity # {} =>
        /\ \A i \in SkippedNoIdentity : PostsTo(STUDENTS[i].name) = {}
        /\ "skipped_no_identity" \in DOMAIN report
        /\ report["skipped_no_identity"] = Cardinality(SkippedNoIdentity)

\* C2's case in the code: the run of the spec's scenario 1, one entry already
\* scheduled and one skipped for want of an identity, nothing sent
C2_Case ==
    /\ pc = "done"
    /\ Cardinality(SkippedNoIdentity) = 1
    /\ \A i \in SkippedNoIdentity : PostsTo(STUDENTS[i].name) = {}
    /\ report = [sent |-> 0, already_scheduled |-> 1]

-----------------------------------------------------------------------------
(* C3 *)

\* C3: when the events request returns a non-success status,
\* get_scheduled_students returns the empty set with call count 1 and issues
\* no invitee request, the run goes on to its end with exit code 0, and every
\* roster entry with a chat identity is sent a message.
C3_EventsFailureStillNotifies ==
    EventsStatus("non200") =>
        /\ Returned
        /\ scheduled_emails = {}
        /\ api_calls = 1
        /\ InviteeRequests = {}
        /\ exit_code \in {-1, 0}
        /\ \A i \in Processed : HasIdentity(i) =>
              Cardinality(PostsTo(STUDENTS[i].name)) = 1
        /\ pc = "done" => exit_code = 0 /\ Processed = Roster

C3_Witness ==
    /\ EventsStatus("non200")
    /\ pc = "done"
    /\ Len(STUDENTS) = 2
    /\ \A i \in Roster : HasIdentity(i)
    /\ Cardinality(Posts) = 2

-----------------------------------------------------------------------------
(* C4 *)

\* C4: after a successful events request, get_scheduled_students returns
\* exactly the union of the lower-cased invitee emails of the events whose
\* invitee request succeeded, whatever failed for the other events.
C4_UnionOfSucceeded ==
    Returned /\ EventsStatus("ok") /\ (\A j \in 1..Len(events) : events[j].uri # "missing") =>
        scheduled_emails =
            UNION {{lower(e) : e \in net[k].data} :
                      k \in {j \in InviteeRequests : net[j].status = "ok"}}

\* C4's case in the code: emails collected from one event, then a raising request
C4_Case ==
    /\ Returned
    /\ \E j, k \in InviteeRequests :
          j < k /\ net[j].status = "ok" /\ net[j].data # {} /\ net[k].status = "raise"

-----------------------------------------------------------------------------
(* C5 *)

\* C5: on every return path of get_scheduled_students the returned call count
\* is the number of HTTP requests the function issued.
C5_CallCountIsRequests ==
    Returned => api_calls = Cardinality(Requests)

-----------------------------------------------------------------------------
(* C8 *)

RosterMissing == LoadStudents(STUDENTS_DATA).students = <<>>
SecretMissing == \E k \in Secrets : Missing(env, k)
\* the exit of lines 51-53, which is not a configuration exit
SlackInitFailed == \E k \in 1..Len(net) : net[k].call = "slack_init" /\ net[k].status = "raise"

\* C8: when a required secret or the roster is missing, the process exits
\* non-zero without having issued a network call.
C8_ExitBeforeNetwork ==
    (SecretMissing \/ RosterMissing) =>
        /\ pc \notin {"events", "invitees", "notify", "done"}
        /\ pc = "exit" /\ ~SlackInitFailed => exit_code # 0 /\ net = <<>>

-----------------------------------------------------------------------------
(* C10 *)

\* C10: every roster entry that is not scheduled and has a chat identity gets
\* exactly one send attempt, in roster order, whatever the earlier sends
\* returned or raised, and the sent counter is the number of attempts whose
\* response reported success.
C10_OneAttemptEach ==
    Returned =>
        /\ PostedNames(Len(net)) = DueNames(st - 1)
        /\ notifications_sent = Cardinality({k \in Posts : net[k].status = "ok"})
        /\ pc = "done" => Processed = Roster /\ report.sent = notifications_sent

C10_Witness ==
    /\ pc = "done"
    /\ Len(STUDENTS) = 2
    /\ \E j, k \in Posts : j < k /\ net[j].status = "raise" /\ net[k].status = "ok"
    /\ report.sent = 1

-----------------------------------------------------------------------------
(* C6, C7: load_students                                                   *)

FullHeader == <<"name", "email", "slack_id">>
DataRows == {k \in 1..Len(STUDENTS_DATA.rows) : Len(STUDENTS_DATA.rows[k]) > 0}
\* a data row with a name, an email and a slack_id value
WellFormedRow(k) == Len(STUDENTS_DATA.rows[k]) = 3
WellFormedBlob ==
    /\ STUDENTS_DATA.fieldnames = FullHeader
    /\ DataRows # {}
    /\ \A k \in DataRows : WellFormedRow(k)
DistinctNames ==
    \A j, k \in DataRows : j # k => STUDENTS_DATA.rows[j][1] # STUDENTS_DATA.rows[k][1]

Upper == {"A", "B", "U"}
\* e is raw without its surrounding whitespace and with every letter in lower
\* case, stated on the characters
IsTrimmedLowerOf(e, raw) ==
    /\ \A i \in 1..Len(e) : e[i] \notin Upper
    /\ e # <<>> => e[1] # " " /\ e[Len(e)] # " "
    /\ \E a \in 0..Len(raw) :
          /\ a + Len(e) <= Len(raw)
          /\ \A i \in 1..Len(raw) : (i <= a \/ i > a + Len(e)) => raw[i] = " "
          /\ \A i \in 1..Len(e) :
                \/ raw[a + i] = e[i]
                \/ <<raw[a + i], e[i]>> \in {<<"A", "a">>, <<"B", "b">>, <<"U", "u">>}

StoredFor(k) ==
    {i \in 1..Len(STUDENTS) : STUDENTS[i].name = STUDENTS_DATA.rows[k][1]}

\* C6 as stated: N well-formed data rows give a mapping of exactly N entries
\* whose emails are the rows' emails lower-cased and trimmed.
C6_OneEntryPerRow ==
    pc = "loaded" /\ WellFormedBlob =>
        /\ Len(STUDENTS) = Cardinality(DataRows)
        /\ \A k \in DataRows : \E i \in StoredFor(k) :
              IsTrimmedLowerOf(STUDENTS[i].email, STUDENTS_DATA.rows[k][2])

\* C6 amended: N well-formed data rows with pairwise distinct names give a
\* mapping of exactly N entries, one per row in the rows' order, whose emails
\* are the rows' emails lower-cased and trimmed.
C6_OneEntryPerDistinctName ==
    pc = "loaded" /\ WellFormedBlob /\ DistinctNames =>
        /\ Len(STUDENTS) = Cardinality(DataRows)
        /\ ~loaded.raised
        /\ loaded.student_count = Cardinality(DataRows)
        /\ \A k \in DataRows : \E i \in StoredFor(k) :
              /\ IsTrimmedLowerOf(STUDENTS[i].email, STUDENTS_DATA.rows[k][2])
              /\ i = Cardinality({j \in DataRows : j <= k})

C6_Witness ==
    /\ pc = "loaded"
    /\ WellFormedBlob
    /\ DistinctNames
    /\ Len(STUDENTS) = 2
    /\ \E k \in DataRows : STUDENTS_DATA.rows[k][2] = <<"A", " ">>
    /\ \E i \in 1..Len(STUDENTS) : STUDENTS[i].email = <<"a">>

\* C7: with the full header, a malformed row is the only row skipped: every
\* well-formed row, before or after it, is in the returned mapping.
C7_OnlyBadRowSkipped ==
    pc = "loaded" /\ STUDENTS_DATA.fieldnames = FullHeader =>
        \A k \in DataRows : WellFormedRow(k) => StoredFor(k) # {}

\* C7's case in the code: a short row followed by a well-formed one
C7_Case ==
    /\ pc = "loaded"
    /\ STUDENTS_DATA.fieldnames = FullHeader
    /\ \E j, k \in DataRows : j < k /\ ~WellFormedRow(j) /\ WellFormedRow(k)
    /\ loaded.raised

-----------------------------------------------------------------------------
(* C9: the week window                                                     *)

\* ordinal 1 is a Monday, so the Mondays are the ordinals congruent to 1 mod 7
IsMonday(ordinal) == ordinal % 7 = 1

\* C9: the window starts at 00:00:00.000000 of the most recent Monday on or
\* before now's date and ends at 23:59:59.999999 four days later; the start is
\* before the end and the two are 5 days minus one microsecond apart.
C9_MondayToFriday ==
    pc = "windowed" =>
        LET lo == window.min_time
            hi == window.max_time
        IN  /\ IsMonday(lo.ordinal)
            /\ lo.ordinal <= now.ordinal
            /\ now.ordinal - lo.ordinal <= 6
            /\ <<lo.hour, lo.minute, lo.second, lo.microsecond>> = <<0, 0, 0, 0>>
            /\ hi.ordinal = lo.ordinal + 4
            /\ <<hi.hour, hi.minute, hi.second, hi.microsecond>> = <<23, 59, 59, 999999>>
            /\ lo.ordinal < hi.ordinal
            /\ Minus(hi, lo) = [days |-> 4, seconds |-> 86399, microseconds |-> 999999]

\* now is a Sunday afternoon: the window is the week that is ending
C9_Witness ==
    /\ pc = "windowed"
    /\ now.ordinal % 7 = 0
    /\ now.hour = 12
    /\ window.min_time.ordinal = now.ordinal - 6
    /\ window.max_time.ordinal = now.ordinal - 2

====
